---- MODULE Spec2Model ----
(***************************************************************************)
(* Model of the Shariah assistant: the crawl -> download -> index pipeline *)
(* of ingest.py and the chat front end of web.py.  The two programs run as *)
(* separate processes and share the file system: the download directory    *)
(* (files), the provenance file (csv) and the index directory (db).        *)
(*                                                                         *)
(* Text is modelled as a sequence of one-character strings, so that the    *)
(* string operations of the code (split, strip, lower, endswith, in) are   *)
(* computed and not assumed.                                               *)
(***************************************************************************)
EXTENDS Integers, Sequences, FiniteSets, TLC

VARIABLES
    \* ---- file system shared by both processes
    files,          \* my_pdfs: file name -> the link its bytes came from, or NoFile
    csv,            \* sources.csv: whether it exists, and its data rows <<filename, url>>
    db,             \* chroma_db: whether the persisted index directory exists
    \* ---- ingest.py process
    pc,             \* position of the pipeline process
    runs,           \* number of run_pipeline calls started
    src,            \* index of current_url in TARGET_URLS
    page_count,     \* page_count of the pagination loop
    all_pdf_links,  \* the set all_pdf_links
    linkOrder,      \* iteration order of all_pdf_links in this run
    dl_i,           \* position of the download loop in linkOrder
    new_downloads,  \* new_downloads
    all_documents,  \* all_documents of ingest_to_db
    \* ---- observations of the current / previous run (not program state)
    visited,        \* seed sources whose page load was attempted in this run
    failed,         \* seed sources that raised while loading or paginating
    fetched,        \* links fetched by the download loop of this run
    startFiles,     \* file names present when this run started
    dbAtStart,      \* whether the index existed when this run started
    prevLinks,      \* {all_pdf_links of the previous completed crawl}, {} before it
    prevRows,       \* provenance rows left by the previous completed crawl
    \* ---- web.py process
    chainCache,     \* st.cache_resource entry of load_chain: "unset", "none", "loaded"
    webPc,          \* position of the script run: "ready", or "invoked" (in chain.invoke)
    URL_MAP,        \* URL_MAP of the script run in progress
    retrieved,      \* the chunks the retriever returned to the chain in progress
    response,       \* the value chain.invoke returns: context, question, answer
    webOut,         \* what the last script run with a prompt came to
    messages,       \* st.session_state.messages
    suggestions     \* st.session_state.suggestions

vars == <<files, csv, db, pc, runs, src, page_count, all_pdf_links, linkOrder,
          dl_i, new_downloads, all_documents, visited, failed, fetched,
          startFiles, dbAtStart, prevLinks, prevRows, chainCache, webPc,
          URL_MAP, retrieved, response, webOut, messages, suggestions>>

fsVars   == <<files, csv, db>>
pipeVars == <<pc, runs, src, page_count, all_pdf_links, linkOrder, dl_i,
              new_downloads, all_documents, visited, failed, fetched,
              startFiles, dbAtStart, prevLinks, prevRows>>
webVars  == <<chainCache, webPc, URL_MAP, retrieved, response, webOut,
              messages, suggestions>>

----------------------------------------------------------------------------
(* Bounds of the model *)

NumSources == 2     \* seed sources modelled (TARGET_URLS holds 9)
MAX_PAGES == 2      \* pages per source modelled (the code's cap is 20)
MaxRuns == 2        \* run_pipeline calls modelled
MaxTurns == 2       \* questions handled per chat session
MaxRetrieved == 3   \* chunks the retriever returns (the code asks for k = 10)
MaxTail == 4        \* separator-delimited segments after segment 0

----------------------------------------------------------------------------
(* Strings *)

UpperChars == <<"A","B","C","D","E","F","G","H","I","J","K","L","M",
                "N","O","P","Q","R","S","T","U","V","W","X","Y","Z">>
LowerChars == <<"a","b","c","d","e","f","g","h","i","j","k","l","m",
                "n","o","p","q","r","s","t","u","v","w","x","y","z">>

LowerChar(c) ==
    IF \E i \in 1..26 : UpperChars[i] = c
    THEN LowerChars[CHOOSE i \in 1..26 : UpperChars[i] = c]
    ELSE c

\* str.lower()
Lower(s) == [i \in 1..Len(s) |-> LowerChar(s[i])]

\* sub in s
Contains(s, sub) ==
    \E i \in 1..(Len(s) - Len(sub) + 1) : SubSeq(s, i, i + Len(sub) - 1) = sub

\* s.endswith(suf)
EndsWith(s, suf) ==
    /\ Len(s) >= Len(suf)
    /\ SubSeq(s, Len(s) - Len(suf) + 1, Len(s)) = suf

IsSpace(c) == c \in {" ", "\n", "\t"}

\* str.strip()
Strip(s) ==
    LET keep == {i \in 1..Len(s) : ~IsSpace(s[i])}
    IN  IF keep = {} THEN <<>>
        ELSE LET lo == CHOOSE i \in keep : \A j \in keep : i <= j
                 hi == CHOOSE i \in keep : \A j \in keep : i >= j
             IN  SubSeq(s, lo, hi)

\* str.split(sep): cut at the non-overlapping occurrences of sep, left to right
RECURSIVE Split(_, _)
Split(s, sep) ==
    LET hits == {i \in 1..(Len(s) - Len(sep) + 1) :
                    SubSeq(s, i, i + Len(sep) - 1) = sep}
    IN  IF hits = {} THEN <<s>>
        ELSE LET i == CHOOSE h \in hits : \A k \in hits : h <= k
             IN  <<SubSeq(s, 1, i - 1)>> \o Split(SubSeq(s, i + Len(sep), Len(s)), sep)

Last(q) == q[Len(q)]

Range(q) == {q[i] : i \in 1..Len(q)}

\* the orders in which a set can be iterated
Perms(S) ==
    {q \in [1..Cardinality(S) -> S] : \A i, j \in 1..Cardinality(S) : q[i] = q[j] => i = j}

----------------------------------------------------------------------------
(* ingest.py: configuration and the world it crawls *)

Sources == 1..NumSources

\* hrefs the anchors of the crawled pages can carry
HrefA1 == <<"b","/","a",".","p","d","f">>
HrefA2 == <<"i","/","a",".","p","d","f">>
HrefB  == <<"b","/","b",".","p","d","f">>
HrefN  == <<"b","/","n",".","h","t","m">>
Hrefs  == {HrefA1, HrefA2, HrefB, HrefN}

PdfExt == <<".","p","d","f">>

\* href and href.lower().endswith(".pdf")
IsPdfHref(href) == href # <<>> /\ EndsWith(Lower(href), PdfExt)

\* link.split("/")[-1]
FileName(link) == Last(Split(link, <<"/">>))

PdfLinks  == {h \in Hrefs : IsPdfHref(h)}
FileNames == {FileName(l) : l \in PdfLinks}

NoFile == <<>>
NoCsv  == [exists |-> FALSE, rows |-> <<>>]
UnknownUrl == <<"#">>

\* os.path.exists(local_path)
AlreadyDownloaded_Never(fs, name) == FALSE
AlreadyDownloaded(fs, name) == fs[name] # NoFile

\* os.path.exists(DB_PATH)
DbExists == db

\* the rows written for the links, in iteration order
CsvRows(order) == [i \in 1..Len(order) |-> <<FileName(order[i]), order[i]>>]

\* the data rows of the provenance file, as a set
RowSet(c) == IF c.exists THEN Range(c.rows) ELSE {}

\* url_map of ingest_to_db: later rows overwrite earlier ones
UrlMap(c) ==
    [name \in {r[1] : r \in RowSet(c)} |->
        LET idx == {i \in 1..Len(c.rows) : c.rows[i][1] = name}
        IN  c.rows[CHOOSE i \in idx : \A j \in idx : i >= j][2]]

\* url_map.get(filename, "#")
UrlGet(c, name) ==
    IF name \in DOMAIN UrlMap(c) THEN UrlMap(c)[name] ELSE UnknownUrl

\* glob.glob(os.path.join(DOWNLOAD_DIR, "*.pdf"))
PdfFiles == {name \in FileNames : files[name] # NoFile /\ EndsWith(name, PdfExt)}

\* the for loop over TARGET_URLS moves on to the next source, or ends
AdvanceSource(s) ==
    IF s < NumSources THEN [pc |-> "get", src |-> s + 1]
    ELSE [pc |-> "csv", src |-> s]

\* except Exception as e: ... continue
OnSourceError_Abort(s) == [pc |-> "csv", src |-> s]
OnSourceError(s) == AdvanceSource(s)

\* except Exception as e: print("Pagination stopped") ; break
OnPaginationStop(s) == AdvanceSource(s)

\* new_files > 0 or not os.path.exists(DB_PATH)
ShouldIngest_And(new_files, exists) == new_files > 0 /\ ~exists
ShouldIngest(new_files, exists) == new_files > 0 \/ ~exists

----------------------------------------------------------------------------
(* ingest.py: run_pipeline, crawl_and_download, ingest_to_db *)

\* run_pipeline is entered (at start-up, then by the scheduler every 30 days);
\* crawl_and_download creates the browser and the empty link set
StartRun ==
    /\ pc = "idle"
    /\ runs < MaxRuns
    /\ runs' = runs + 1
    /\ pc' = "get"
    /\ src' = 1
    /\ page_count' = 1
    /\ all_pdf_links' = {}
    /\ linkOrder' = <<>>
    /\ dl_i' = 1
    /\ new_downloads' = 0
    /\ visited' = {}
    /\ failed' = {}
    /\ fetched' = {}
    /\ startFiles' = {name \in FileNames : files[name] # NoFile}
    /\ dbAtStart' = DbExists
    /\ UNCHANGED <<all_documents, prevLinks, prevRows>>
    /\ UNCHANGED <<fsVars, webVars>>

\* setup_driver() raises: the exception leaves run_pipeline and ends the process
SetupFails ==
    /\ pc = "idle"
    /\ runs < MaxRuns
    /\ runs' = runs + 1
    /\ pc' = "crashed"
    /\ UNCHANGED <<src, page_count, all_pdf_links, linkOrder, dl_i, new_downloads,
                   all_documents, visited, failed, fetched, startFiles, dbAtStart,
                   prevLinks, prevRows>>
    /\ UNCHANGED <<fsVars, webVars>>

crawlFrame ==
    /\ UNCHANGED <<runs, linkOrder, dl_i, new_downloads, all_documents, fetched,
                   startFiles, dbAtStart, prevLinks, prevRows>>
    /\ UNCHANGED <<fsVars, webVars>>

\* driver.get(current_url) succeeds: page_count = 1
CrawlGet ==
    /\ pc = "get"
    /\ visited' = visited \cup {src}
    /\ pc' = "page"
    /\ page_count' = 1
    /\ UNCHANGED <<src, all_pdf_links, failed>>
    /\ crawlFrame

\* driver.get(current_url) raises: caught by the per-source handler
CrawlGetFails ==
    /\ pc = "get"
    /\ visited' = visited \cup {src}
    /\ failed' = failed \cup {src}
    /\ pc' = OnSourceError(src).pc
    /\ src' = OnSourceError(src).src
    /\ UNCHANGED <<page_count, all_pdf_links>>
    /\ crawlFrame

\* driver.find_elements raises while scanning a page: the per-source handler
CrawlScanFails ==
    /\ pc = "page"
    /\ failed' = failed \cup {src}
    /\ pc' = OnSourceError(src).pc
    /\ src' = OnSourceError(src).src
    /\ UNCHANGED <<page_count, all_pdf_links, visited>>
    /\ crawlFrame

\* one page: its pdf anchors are added, a next control is found and clicked
CrawlPageNext(H) ==
    /\ pc = "page"
    /\ \E anchors \in SUBSET H :
          all_pdf_links' = all_pdf_links \cup {h \in anchors : IsPdfHref(h)}
    /\ page_count' = page_count + 1
    /\ IF page_count + 1 <= MAX_PAGES
       THEN pc' = "page" /\ src' = src
       ELSE pc' = AdvanceSource(src).pc /\ src' = AdvanceSource(src).src
    /\ UNCHANGED <<visited, failed>>
    /\ crawlFrame

\* one page: its pdf anchors are added, no next control: break
CrawlPageLast(H) ==
    /\ pc = "page"
    /\ \E anchors \in SUBSET H :
          all_pdf_links' = all_pdf_links \cup {h \in anchors : IsPdfHref(h)}
    /\ pc' = AdvanceSource(src).pc
    /\ src' = AdvanceSource(src).src
    /\ UNCHANGED <<page_count, visited, failed>>
    /\ crawlFrame

\* one page: its pdf anchors are added, the click on the next control raises
CrawlPaginationFails(H) ==
    /\ pc = "page"
    /\ \E anchors \in SUBSET H :
          all_pdf_links' = all_pdf_links \cup {h \in anchors : IsPdfHref(h)}
    /\ failed' = failed \cup {src}
    /\ pc' = OnPaginationStop(src).pc
    /\ src' = OnPaginationStop(src).src
    /\ UNCHANGED <<page_count, visited>>
    /\ crawlFrame

\* sources.csv is rewritten: the header and one row per link of all_pdf_links
WriteCsv ==
    /\ pc = "csv"
    /\ \E order \in Perms(all_pdf_links) :
          /\ linkOrder' = order
          /\ csv' = [exists |-> TRUE, rows |-> CsvRows(order)]
    /\ dl_i' = 1
    /\ new_downloads' = 0
    /\ pc' = "download"
    /\ src' = 1
    /\ page_count' = 1
    /\ UNCHANGED <<files, db>>
    /\ UNCHANGED <<runs, all_pdf_links, all_documents, visited, failed, fetched,
                   startFiles, dbAtStart, prevLinks, prevRows>>
    /\ UNCHANGED webVars

dlFrame ==
    /\ UNCHANGED <<csv, db>>
    /\ UNCHANGED <<pc, runs, src, page_count, all_pdf_links, linkOrder, all_documents,
                   visited, failed, startFiles, dbAtStart, prevLinks, prevRows>>
    /\ UNCHANGED webVars

\* the file of this link is already there: continue
DownloadSkip ==
    /\ pc = "download"
    /\ dl_i <= Len(linkOrder)
    /\ AlreadyDownloaded(files, FileName(linkOrder[dl_i]))
    /\ dl_i' = dl_i + 1
    /\ UNCHANGED <<files, new_downloads, fetched>>
    /\ dlFrame

\* driver.get(link) fetches the file into my_pdfs under its last path segment
DownloadFetch ==
    /\ pc = "download"
    /\ dl_i <= Len(linkOrder)
    /\ ~AlreadyDownloaded(files, FileName(linkOrder[dl_i]))
    /\ files' = [files EXCEPT ![FileName(linkOrder[dl_i])] = linkOrder[dl_i]]
    /\ fetched' = fetched \cup {linkOrder[dl_i]}
    /\ new_downloads' = new_downloads + 1
    /\ dl_i' = dl_i + 1
    /\ dlFrame

\* driver.get(link) raises: except: pass
DownloadFails ==
    /\ pc = "download"
    /\ dl_i <= Len(linkOrder)
    /\ ~AlreadyDownloaded(files, FileName(linkOrder[dl_i]))
    /\ dl_i' = dl_i + 1
    /\ UNCHANGED <<files, new_downloads, fetched>>
    /\ dlFrame

\* return new_downloads (and driver.quit())
CrawlReturns ==
    /\ pc = "download"
    /\ dl_i > Len(linkOrder)
    /\ pc' = "decide"
    /\ dl_i' = 1
    /\ visited' = {}
    /\ failed' = {}
    /\ UNCHANGED <<runs, src, page_count, all_pdf_links, linkOrder, new_downloads,
                   all_documents, fetched, startFiles, dbAtStart, prevLinks, prevRows>>
    /\ UNCHANGED <<fsVars, webVars>>

\* what the finished crawl leaves for the next run to be compared with
endCrawl ==
    /\ prevLinks' = {all_pdf_links}
    /\ prevRows' = RowSet(csv)
    /\ all_pdf_links' = {}
    /\ linkOrder' = <<>>
    /\ new_downloads' = 0
    /\ fetched' = {}
    /\ startFiles' = {}
    /\ UNCHANGED <<runs, src, page_count, dl_i, visited, failed>>

\* run_pipeline: new_files > 0 or no index: ingest_to_db()
DecideIngest ==
    /\ pc = "decide"
    /\ ShouldIngest(new_downloads, DbExists)
    /\ pc' = "ingest_begin"
    /\ endCrawl
    /\ UNCHANGED <<all_documents, dbAtStart>>
    /\ UNCHANGED <<fsVars, webVars>>

\* run_pipeline: else "No new files": the run is over
DecideSkip ==
    /\ pc = "decide"
    /\ ~ShouldIngest(new_downloads, DbExists)
    /\ pc' = "idle"
    /\ endCrawl
    /\ UNCHANGED <<all_documents, dbAtStart>>
    /\ UNCHANGED <<fsVars, webVars>>

ingestFrame ==
    /\ UNCHANGED <<runs, src, page_count, all_pdf_links, linkOrder, dl_i,
                   new_downloads, visited, failed, fetched, startFiles, dbAtStart,
                   prevLinks, prevRows>>
    /\ UNCHANGED webVars

\* ingest_to_db: no pdf in my_pdfs: return
IngestNoPdfs ==
    /\ pc = "ingest_begin"
    /\ PdfFiles = {}
    /\ pc' = "idle"
    /\ UNCHANGED <<fsVars, all_documents>>
    /\ ingestFrame

\* ingest_to_db: the old index directory, if any, is removed
IngestClean ==
    /\ pc = "ingest_begin"
    /\ PdfFiles # {}
    /\ db' = FALSE
    /\ all_documents' = {}
    /\ pc' = "ingest_load"
    /\ UNCHANGED <<files, csv>>
    /\ ingestFrame

\* ingest_to_db: url_map is read, every pdf that parses is stamped and collected,
\* the others are skipped
IngestLoad ==
    /\ pc = "ingest_load"
    /\ \E parsed \in SUBSET PdfFiles :
          all_documents' = {[source |-> name, url |-> UrlGet(csv, name)] : name \in parsed}
    /\ pc' = "ingest_save"
    /\ UNCHANGED fsVars
    /\ ingestFrame

\* ingest_to_db: there are documents: they are split, embedded and written
IngestSave ==
    /\ pc = "ingest_save"
    /\ all_documents # {}
    /\ db' = TRUE
    /\ pc' = "idle"
    /\ all_documents' = {}
    /\ UNCHANGED <<files, csv>>
    /\ ingestFrame

\* ingest_to_db: the embedding model or the store raises while writing
IngestSaveCrashes ==
    /\ pc = "ingest_save"
    /\ all_documents # {}
    /\ pc' = "crashed"
    /\ all_documents' = {}
    /\ UNCHANGED fsVars
    /\ ingestFrame

\* ingest_to_db: nothing parsed: nothing is written
IngestNothing ==
    /\ pc = "ingest_save"
    /\ all_documents = {}
    /\ pc' = "idle"
    /\ UNCHANGED <<fsVars, all_documents>>
    /\ ingestFrame

Pipeline(H) ==
    \/ StartRun \/ SetupFails
    \/ CrawlGet \/ CrawlGetFails \/ CrawlScanFails
    \/ CrawlPageNext(H) \/ CrawlPageLast(H) \/ CrawlPaginationFails(H)
    \/ WriteCsv \/ DownloadSkip \/ DownloadFetch \/ DownloadFails \/ CrawlReturns
    \/ DecideIngest \/ DecideSkip
    \/ IngestNoPdfs \/ IngestClean \/ IngestLoad
    \/ IngestSave \/ IngestSaveCrashes \/ IngestNothing

InitFs ==
    /\ files = [name \in FileNames |-> NoFile]
    /\ csv = NoCsv
    /\ db = FALSE

InitPipeline ==
    /\ pc = "idle"
    /\ runs = 0
    /\ src = 1
    /\ page_count = 1
    /\ all_pdf_links = {}
    /\ linkOrder = <<>>
    /\ dl_i = 1
    /\ new_downloads = 0
    /\ all_documents = {}
    /\ visited = {}
    /\ failed = {}
    /\ fetched = {}
    /\ startFiles = {}
    /\ dbAtStart = FALSE
    /\ prevLinks = {}
    /\ prevRows = {}

----------------------------------------------------------------------------
(* web.py: provenance map, rebalancing, engine, question handling *)

GENERAL_URL == <<"g">>

\* load_url_map: keys are stripped and lower-cased, later rows overwrite earlier
\* ones, rows with an empty filename or url are dropped
load_url_map(c) ==
    LET rows == IF c.exists THEN c.rows ELSE <<>>
        key(i) == Lower(Strip(rows[i][1]))
        good == {i \in 1..Len(rows) : key(i) # <<>> /\ Strip(rows[i][2]) # <<>>}
    IN  [k \in {key(i) : i \in good} |->
            Strip(rows[CHOOSE i \in good :
                        key(i) = k /\ \A j \in good : key(j) = k => i >= j][2])]

\* 'iifa' in filename
IifaTag == <<"i","i","f","a">>
IsIifa(doc) == Contains(Lower(doc.source), IifaTag)

\* the loop of get_balanced_docs from position i on; bnm and iifa hold the kept
\* document as a sequence of length 0 (None) or 1
RECURSIVE BalanceLoop(_, _, _, _)
BalanceLoop(docs, i, bnm, iifa) ==
    IF i > Len(docs) THEN <<bnm, iifa>>
    ELSE IF IsIifa(docs[i])
         THEN BalanceLoop(docs, i + 1, bnm, IF iifa = <<>> THEN <<docs[i]>> ELSE iifa)
         ELSE BalanceLoop(docs, i + 1, IF bnm = <<>> THEN <<docs[i]>> ELSE bnm, iifa)

\* the same loop without the "if not ..._doc" tests: the last match is kept
RECURSIVE BalanceLoopLast(_, _, _, _)
BalanceLoopLast(docs, i, bnm, iifa) ==
    IF i > Len(docs) THEN <<bnm, iifa>>
    ELSE IF IsIifa(docs[i])
         THEN BalanceLoopLast(docs, i + 1, bnm, <<docs[i]>>)
         ELSE BalanceLoopLast(docs, i + 1, <<docs[i]>>, iifa)

get_balanced_docs_Last(docs) ==
    LET kept == BalanceLoopLast(docs, 1, <<>>, <<>>) IN kept[1] \o kept[2]

\* get_balanced_docs: results = [bnm_doc if any] + [iifa_doc if any]
get_balanced_docs(docs) ==
    LET kept == BalanceLoop(docs, 1, <<>>, <<>>) IN kept[1] \o kept[2]

\* the separator of the follow-up questions, and the phrase that marks a
\* general-knowledge answer ("General Knowledge Mode", shortened)
Separator == <<"|","|","|">>
GKPhrase == <<"G","K","M">>

\* the suggestions shown before the first answer (three entries)
InitialSuggestions == << <<"T","?">>, <<"M",".">>, <<"R","?">> >>

\* parts[0].strip()
AnswerText(full_response) == Strip(Split(full_response, Separator)[1])

\* the loop over parts[1:]: the stripped segments that hold a question mark
RECURSIVE SuggestionLoop(_, _)
SuggestionLoop(parts, i) ==
    IF i > Len(parts) THEN <<>>
    ELSE LET clean_s == Strip(parts[i])
         IN  (IF clean_s # <<>> /\ Contains(clean_s, <<"?">>) THEN <<clean_s>> ELSE <<>>)
                \o SuggestionLoop(parts, i + 1)

new_suggestions(full_response) == SuggestionLoop(Split(full_response, Separator), 2)

\* new_suggestions[:3]
FirstThree_All(q) == q
FirstThree(q) == SubSeq(q, 1, IF Len(q) < 3 THEN Len(q) ELSE 3)

\* if len(new_suggestions) >= 1: suggestions = new_suggestions[:3]
NextSuggestions(old, full_response) ==
    LET new == new_suggestions(full_response)
    IN  IF Len(new) >= 1 THEN FirstThree(new) ELSE old

\* "General Knowledge Mode" in answer_text
is_general_knowledge(answer_text) == Contains(answer_text, GKPhrase)

LabelPrefix(source) ==
    IF Contains(Lower(Strip(source)), IifaTag) THEN "IIFA Resolution" ELSE "BNM Policy"

\* the citation built for one context document
Citation(doc, map) ==
    LET clean_filename == Lower(Strip(doc.source))
    IN  [label |-> LabelPrefix(doc.source),
         source |-> doc.source,
         url |-> IF clean_filename \in DOMAIN map THEN map[clean_filename] ELSE GENERAL_URL,
         page |-> doc.page + 1]

\* the evidence loop from position i on: documents whose filename_page key was
\* not seen yet are cited
RECURSIVE CitationLoop(_, _, _, _)
CitationLoop(context_docs, i, seen_pages, map) ==
    IF i > Len(context_docs) THEN <<>>
    ELSE LET unique_key == <<context_docs[i].source, context_docs[i].page>>
         IN  IF unique_key \notin seen_pages
             THEN <<Citation(context_docs[i], map)>>
                    \o CitationLoop(context_docs, i + 1, seen_pages \cup {unique_key}, map)
             ELSE CitationLoop(context_docs, i + 1, seen_pages, map)

citations_list_None(context_docs, map) == <<>>
citations_list(context_docs, map) == CitationLoop(context_docs, 1, {}, map)

\* get_pdf_page_image: None unless the pdf is in the pdf folder
HasPageImage(doc) == doc.source \in DOMAIN files /\ files[doc.source] # NoFile

\* the captions saved for the context documents whose page image was rendered
RECURSIVE ImagesLoop(_, _)
ImagesLoop(context_docs, i) ==
    IF i > Len(context_docs) THEN <<>>
    ELSE (IF HasPageImage(context_docs[i])
          THEN <<[caption |-> <<LabelPrefix(context_docs[i].source),
                               context_docs[i].page + 1>>]>>
          ELSE <<>>) \o ImagesLoop(context_docs, i + 1)

images_to_save(context_docs) == ImagesLoop(context_docs, 1)

NoResponse == [context |-> <<>>, question |-> <<>>, answer |-> <<>>]
NoUrlMap == <<>>

\* the question typed into the chat input
TypedPrompt == <<"q">>

\* the chat input and, with buttons, the (at most three) suggestion buttons shown
Prompts(buttons) ==
    {TypedPrompt} \cup
    (IF buttons
     THEN {suggestions[i] : i \in 1..(IF Len(suggestions) < 3 THEN Len(suggestions) ELSE 3)}
     ELSE {})

\* load_chain under st.cache_resource: the first call decides, later calls return
\* what the first one returned
LoadChain(cache) ==
    IF cache = "unset" THEN (IF DbExists THEN "loaded" ELSE "none") ELSE cache

\* a script run without a prompt: the engine is looked up, the page is drawn
\* (with the engine cached already such a run changes nothing)
WebRerun ==
    /\ webPc = "ready"
    /\ chainCache = "unset"
    /\ chainCache' = LoadChain(chainCache)
    /\ UNCHANGED <<webPc, URL_MAP, retrieved, response, webOut, messages, suggestions>>
    /\ UNCHANGED <<fsVars, pipeVars>>

\* a script run with a prompt, no engine: st.error("Database not found!"), st.stop()
AskNotReady ==
    /\ webPc = "ready"
    /\ LoadChain(chainCache) = "none"
    /\ chainCache' = LoadChain(chainCache)
    /\ webOut' = "not_ready"
    /\ UNCHANGED <<webPc, URL_MAP, retrieved, response, messages, suggestions>>
    /\ UNCHANGED <<fsVars, pipeVars>>

\* the questions put so far
Questions == Cardinality({i \in 1..Len(messages) : messages[i].role = "user"})

\* a script run with a prompt and an engine: the user message is stored and
\* chain.invoke(prompt) retrieves, rebalances and asks the language model
Ask(buttons, Retrievals, Answers) ==
    /\ webPc = "ready"
    /\ Questions < MaxTurns
    /\ LoadChain(chainCache) = "loaded"
    /\ chainCache' = LoadChain(chainCache)
    /\ URL_MAP' = load_url_map(csv)
    /\ \E prompt \in Prompts(buttons), docs \in Retrievals, answer \in Answers :
          /\ messages' = Append(messages, [role |-> "user", content |-> prompt])
          /\ retrieved' = docs
          /\ response' = [context |-> get_balanced_docs(docs),
                          question |-> prompt,
                          answer |-> answer]
    /\ webPc' = "invoked"
    /\ webOut' = IF DbExists THEN "asked" ELSE "asked_without_index"
    /\ UNCHANGED suggestions
    /\ UNCHANGED <<fsVars, pipeVars>>

\* chain.invoke raises (the store or the language model fails): the script run ends
InvokeFails ==
    /\ webPc = "invoked"
    /\ webPc' = "ready"
    /\ URL_MAP' = NoUrlMap
    /\ retrieved' = <<>>
    /\ response' = NoResponse
    /\ webOut' = "error"
    /\ UNCHANGED <<chainCache, messages, suggestions>>
    /\ UNCHANGED <<fsVars, pipeVars>>

replyFrame ==
    /\ webPc' = "ready"
    /\ URL_MAP' = NoUrlMap
    /\ retrieved' = <<>>
    /\ response' = NoResponse
    /\ UNCHANGED chainCache
    /\ UNCHANGED <<fsVars, pipeVars>>

\* the answer is a general-knowledge answer: it is stored without evidence
ReplyGeneral ==
    /\ webPc = "invoked"
    /\ is_general_knowledge(AnswerText(response.answer))
    /\ suggestions' = NextSuggestions(suggestions, response.answer)
    /\ messages' = Append(messages,
                          [role |-> "assistant", content |-> AnswerText(response.answer)])
    /\ webOut' = "answered"
    /\ replyFrame

\* the answer is grounded: citations and page images of the context are stored
ReplyGrounded ==
    /\ webPc = "invoked"
    /\ ~is_general_knowledge(AnswerText(response.answer))
    /\ Len(response.context) > 0
    /\ suggestions' = NextSuggestions(suggestions, response.answer)
    /\ messages' = Append(messages,
                          [role |-> "assistant",
                           content |-> AnswerText(response.answer),
                           citations |-> citations_list(response.context, URL_MAP),
                           images |-> images_to_save(response.context)])
    /\ webOut' = "answered"
    /\ replyFrame

\* the answer is not a general-knowledge answer and the context is empty:
\* st.columns(0) raises after the suggestions were replaced
ReplyNoContext ==
    /\ webPc = "invoked"
    /\ ~is_general_knowledge(AnswerText(response.answer))
    /\ Len(response.context) = 0
    /\ suggestions' = NextSuggestions(suggestions, response.answer)
    /\ webOut' = "error"
    /\ UNCHANGED messages
    /\ replyFrame

Reply == ReplyGeneral \/ ReplyGrounded \/ ReplyNoContext

InitWeb ==
    /\ chainCache = "unset"
    /\ webPc = "ready"
    /\ URL_MAP = NoUrlMap
    /\ retrieved = <<>>
    /\ response = NoResponse
    /\ webOut = "none"
    /\ messages = <<>>
    /\ suggestions = InitialSuggestions

----------------------------------------------------------------------------
(* Properties of the pipeline *)

\* C1: a run of run_pipeline invokes ingest_to_db exactly when the crawl returned
\* a new-download count above zero or no index directory exists at that moment.
C1_ConditionalRebuild ==
    [][(pc = "decide" /\ pc' # "decide")
          => ((pc' = "ingest_begin") <=> (new_downloads > 0 \/ ~db))]_vars

\* C1 witness: a crawl has returned zero new downloads while an index exists
C1_Witness == pc = "decide" /\ new_downloads = 0 /\ db /\ runs = 2

\* C2 (as claimed): a crawl that discovers the same link set as the one before it
\* counts zero new downloads and leaves the same set of provenance rows.
C2_IdempotentDownload ==
    (pc = "decide" /\ prevLinks = {all_pdf_links})
        => (new_downloads = 0 /\ RowSet(csv) = prevRows)

\* C2 (amended): a crawl that discovers the same link set as the one before it,
\* and that starts with the file of every discovered link present locally, counts
\* zero new downloads and leaves the same set of provenance rows.
C2_IdempotentWhenPresent ==
    (/\ pc = "decide"
     /\ prevLinks = {all_pdf_links}
     /\ \A l \in all_pdf_links : FileName(l) \in startFiles)
        => (new_downloads = 0 /\ RowSet(csv) = prevRows)

\* C2 witness: the second crawl found all links again, every file already present
C2_Witness ==
    /\ pc = "decide"
    /\ all_pdf_links = PdfLinks
    /\ prevLinks = {all_pdf_links}
    /\ \A l \in all_pdf_links : FileName(l) \in startFiles

\* C3: after a crawl, every file fetched during it is mapped by the provenance
\* record to the url it was fetched from.
C3_ProvenanceComplete ==
    pc = "decide" => \A l \in fetched : UrlGet(csv, FileName(l)) = l

\* C4: the provenance file never holds two rows with the same filename.
C4_OneRowPerFilename ==
    \A i, j \in 1..Len(csv.rows) : csv.rows[i][1] = csv.rows[j][1] => i = j

InCrawl == pc \in {"get", "page"}

\* C8: an error at a seed source never aborts the crawl: the collected links are
\* kept, the crawl phase is left only for the provenance write and only when every
\* seed source was visited, and the provenance write is followed by the downloads.
C8_SourceIsolation ==
    [][/\ InCrawl => /\ all_pdf_links \subseteq all_pdf_links'
                     /\ pc' \in {"get", "page", "csv"}
                     /\ (pc' = "csv" => visited' = Sources)
       /\ pc = "csv" => pc' \in {"csv", "download"}
       /\ pc = "download" => pc' \in {"download", "decide"}]_vars

\* C8 witness: every seed source raised, links were collected, downloads run
C8_Witness == pc = "download" /\ failed = Sources /\ all_pdf_links # {}

\* C9: a run that starts with an index and does not crash ends with an index.
C9_IndexSurvivesRun == (pc = "idle" /\ runs > 0 /\ dbAtStart) => db

----------------------------------------------------------------------------
(* Inputs of the chat process: retrieved chunks and model responses *)

SeqsUpTo(S, n) == UNION {[1..k -> S] : k \in 0..n}

DocI0 == [source |-> <<"I","I","F","A">>, page |-> 0]
DocI1 == [source |-> <<"x","i","i","f","a">>, page |-> 1]
DocB0 == [source |-> <<"b",".","p","d","f">>, page |-> 0]
DocB1 == [source |-> <<"i","i","f">>, page |-> 2]
DocPool == {DocI0, DocI1, DocB0, DocB1}

WideRetrievals == SeqsUpTo(DocPool, MaxRetrieved)
NarrowRetrievals == {<<DocI0, DocB0>>}

PlainAnswer == <<" ","a"," ">>
AskingAnswer == <<"a","?">>
GeneralAnswer == <<"G","K","M"," ","a">>
NearlyGeneralAnswer == <<"G","K"," ","M">>

TailB == <<" ","b","?"," ">>
TailC == <<"c">>
TailD == <<"d","?">>
TailPool == {TailB, TailC, TailD}

\* segment 0 followed by the separator-led tail segments
RECURSIVE Join(_, _)
Join(seg0, tails) ==
    IF tails = <<>> THEN seg0
    ELSE Join(seg0 \o Separator \o Head(tails), Tail(tails))

WideAnswers ==
    {Join(a, ts) : a \in {PlainAnswer, AskingAnswer, GeneralAnswer},
                   ts \in SeqsUpTo(TailPool, MaxTail)}
NarrowAnswers ==
    {Join(a, <<TailB>>) : a \in {PlainAnswer, GeneralAnswer, NearlyGeneralAnswer}}

\* a provenance file and a pdf folder as a crawl leaves them, and an index
InitChatFs ==
    /\ files = [name \in FileNames |-> IF name = FileName(HrefB) THEN HrefB ELSE NoFile]
    /\ csv = [exists |-> TRUE,
              rows |-> << <<FileName(HrefB), HrefB>>,
                          << <<"I","I","F","A">>, <<"i","/","I","I","F","A">> >> >>]
    /\ db = TRUE

----------------------------------------------------------------------------
(* Properties of the chat process *)

\* C5: the rebalanced list holds at most one chunk per source category (filename
\* containing 'iifa' or not), the chunk kept for a category is the first of that
\* category in the retrieved list, and every category retrieved is represented.
C5_CategoryRebalancing ==
    webPc = "invoked" =>
        LET in == retrieved
            out == response.context
        IN  /\ \A i, j \in 1..Len(out) : IsIifa(out[i]) = IsIifa(out[j]) => i = j
            /\ \A i \in 1..Len(out) :
                  \E k \in 1..Len(in) :
                     /\ in[k] = out[i]
                     /\ \A m \in 1..(k - 1) : IsIifa(in[m]) # IsIifa(out[i])
            /\ \A k \in 1..Len(in) : \E i \in 1..Len(out) : IsIifa(out[i]) = IsIifa(in[k])

\* C5 witness: two chunks of one category were retrieved around one of the other
C5_Witness ==
    /\ webPc = "invoked"
    /\ retrieved = <<DocI1, DocB1, DocI0>>
    /\ response.context = <<DocB1, DocI1>>

\* the rank the retriever gave to the chunk kept for the category of doc: the
\* position of the first chunk of that category in the retrieved list
KeptRank(in, doc) ==
    CHOOSE k \in 1..Len(in) :
        /\ IsIifa(in[k]) = IsIifa(doc)
        /\ \A m \in 1..(k - 1) : IsIifa(in[m]) # IsIifa(doc)

\* C11: the chunks kept by the rebalancing reach the prompt context and the
\* citation rendering in retrieval order: of any two kept chunks, the one the
\* retriever ranked earlier stands earlier in the rebalanced list.
C11_RetrievalOrderKept ==
    webPc = "invoked" =>
        LET in == retrieved
            out == response.context
        IN  \A i, j \in 1..Len(out) :
               KeptRank(in, out[i]) < KeptRank(in, out[j]) => i < j

\* C6: when a response is handled, an answer without the general-knowledge phrase
\* over at least one retrieved chunk is stored with a non-empty citation list, and
\* an answer with the phrase is stored without citations and without images.
C6_CitationGrounding ==
    [][(webPc = "invoked" /\ webPc' = "ready") =>
          LET answer_text == Strip(Split(response.answer, Separator)[1])
              stored == messages'[Len(messages')]
          IN  /\ (~Contains(answer_text, GKPhrase) /\ Len(retrieved) >= 1) =>
                    /\ messages' = Append(messages, stored)
                    /\ stored.role = "assistant"
                    /\ "citations" \in DOMAIN stored
                    /\ stored.citations # <<>>
              /\ Contains(answer_text, GKPhrase) =>
                    /\ messages' = Append(messages, stored)
                    /\ stored.role = "assistant"
                    /\ DOMAIN stored = {"role", "content"}]_vars

\* C6 witness: a grounded answer with two citations and a general-knowledge
\* answer over retrieved chunks are both in the history
C6_Witness ==
    /\ \E i \in 1..Len(messages) :
          /\ "citations" \in DOMAIN messages[i]
          /\ Len(messages[i].citations) = 2
    /\ \E i \in 1..Len(messages) :
          /\ messages[i].role = "assistant"
          /\ "citations" \notin DOMAIN messages[i]

\* the trimmed segments after segment 0 that hold a question mark, in order
QuestionSegments(full_response) ==
    LET parts == Split(full_response, Separator)
        trimmed == [i \in 1..(Len(parts) - 1) |-> Strip(parts[i + 1])]
    IN  SelectSeq(trimmed, LAMBDA t : Contains(t, <<"?">>))

Prefix3(q) == IF Len(q) <= 3 THEN q ELSE <<q[1], q[2], q[3]>>

\* C10 (as claimed): the suggestion list always holds 1 to 3 entries; a response
\* none of whose segments holds a question mark leaves it unchanged, any other
\* response replaces it by the first three question segments after segment 0.
C10_SuggestionState ==
    /\ Len(suggestions) \in 1..3
    /\ [][/\ Len(suggestions') \in 1..3
          /\ (webPc = "invoked" /\ webPc' = "ready") =>
                LET parts == Split(response.answer, Separator)
                IN  IF \A i \in 1..Len(parts) : ~Contains(parts[i], <<"?">>)
                    THEN suggestions' = suggestions
                    ELSE suggestions' = Prefix3(QuestionSegments(response.answer))]_vars

\* C10 (amended): the suggestion list always holds 1 to 3 entries; a response
\* none of whose segments after segment 0 holds a question mark leaves it
\* unchanged, any other response replaces it by the first three question
\* segments after segment 0.
C10_SuggestionStateAfterSegment0 ==
    /\ Len(suggestions) \in 1..3
    /\ [][/\ Len(suggestions') \in 1..3
          /\ (webPc = "invoked" /\ webPc' = "ready") =>
                IF QuestionSegments(response.answer) = <<>>
                THEN suggestions' = suggestions
                ELSE suggestions' = Prefix3(QuestionSegments(response.answer))]_vars

\* C10 witness: after an earlier response replaced the list, a response with more
\* than three question segments is being handled
C10_Witness ==
    /\ webPc = "invoked"
    /\ suggestions # InitialSuggestions
    /\ Len(QuestionSegments(response.answer)) > 3

\* C7: a question is taken up only while the index directory exists; without it
\* the script run refuses with "not ready".
C7_NotReadyRefusal == webOut # "asked_without_index"

\* the index builder stands between shutil.rmtree of the old index and the end
\* of the write of the new one
InDeleteToWriteWindow == dbAtStart /\ pc \in {"ingest_load", "ingest_save"}

\* C12: with the pipeline process and the chat process side by side, no query
\* is executed (chain.invoke is not entered) while the index builder stands
\* between deleting the old index and finishing the write of the new one.
C12_NoQueryInRebuildWindow ==
    [][InDeleteToWriteWindow => ~(webPc = "ready" /\ webPc' = "invoked")]_vars

----------------------------------------------------------------------------
(* Specifications *)

Init == InitFs /\ InitPipeline /\ InitWeb

Next == Pipeline(Hrefs)

\* the pipeline process on its own
Spec == Init /\ [][Next]_vars

InitChat == InitChatFs /\ InitPipeline /\ InitWeb

NextChat ==
    \/ WebRerun
    \/ Ask(FALSE, WideRetrievals, NarrowAnswers)
    \/ Reply

\* one chat session over an existing index and a working language model:
\* any retrieval, a few responses
SpecChat == InitChat /\ [][NextChat]_vars

NextSuggest ==
    \/ WebRerun
    \/ Ask(FALSE, NarrowRetrievals, WideAnswers)
    \/ ReplyGeneral
    \/ ReplyGrounded

\* one chat session over an existing index and a working language model:
\* one retrieval, any response
SpecSuggest == InitChat /\ [][NextSuggest]_vars

NextSystem ==
    \/ Pipeline({HrefA1, HrefB})
    \/ WebRerun
    \/ AskNotReady
    \/ Ask(TRUE, {<<>>, <<DocB0>>}, {Join(PlainAnswer, <<TailB>>), GeneralAnswer})
    \/ InvokeFails
    \/ Reply

\* the pipeline process and the chat process side by side
SpecSystem == Init /\ [][NextSystem]_vars

====
